---- MODULE Spec2Model ----
(***************************************************************************)
(* Embedding service (deploy/loa-identity/embedding-service/main.py).      *)
(*                                                                         *)
(* One process-wide model handle, set by the startup hook load_model, and  *)
(* four request handlers: /health, /embed, /similarity, /batch-similarity. *)
(* The handlers are `async def` bodies without any await, so each runs to  *)
(* completion on the event loop: one action per handler.                   *)
(*                                                                         *)
(* Numbers.  Embedding components are fixed-point in units of 1e-4, so a   *)
(* dot product is in units of 1e-8 and round(s, 4) rounds it to a multiple *)
(* of 10000; elapsed is in units of 1e-3 ms and round(e, 2) rounds it to a *)
(* multiple of 10.  Python rounds and compares the exact binary value of   *)
(* the float: a float whose fixed-point value is x lies below, on or above *)
(* x.  That side decides a decimal tie in round and an equality in the     *)
(* threshold filter.  It is part of the float, so it travels with the      *)
(* value: a handle carries one for each dot product of two of its          *)
(* embeddings, the clock reading carries it for elapsed.                   *)
(* The encoder is the external library: a loaded handle carries its table  *)
(* of embeddings, and a set of texts on which encode raises.               *)
(***************************************************************************)
EXTENDS Integers, Sequences, FiniteSets

VARIABLES phase, model, last

vars == <<phase, model, last>>

(* ---------------- bounds ---------------- *)
MaxLen == 2        \* longest request list enumerated exhaustively
Dim == 2           \* embedding dimension of the loaded model
RawNorm == 3       \* length factor of an embedding before normalisation

(* ---------------- program constants ---------------- *)
MODEL_NAME == "sentence-transformers/all-MiniLM-L6-v2"
MaxTexts == 100
MaxCandidates == 100

(* ---------------- inputs ---------------- *)
Texts == {"a", "b"}
Thresholds == {98995000, 100000000}
Sides == {-1, 0, 1}
Elapsed == {[t |-> 4, side |-> -1], [t |-> 165, side |-> 1]}
EncodeError == "encode failed"

Repeat(t, n) == [i \in 1..n |-> t]

ShortLists == UNION {[1..n -> Texts] : n \in 0..MaxLen}

TextLists == ShortLists \cup {Repeat("a", n) : n \in {MaxTexts, MaxTexts + 1}}

CandidateLists ==
    ShortLists \cup {Repeat("a", n) : n \in {MaxCandidates, MaxCandidates + 1}}

(* ---------------- the model handle ---------------- *)
None == [none |-> TRUE]

\* a normalised embedding: the two leading components, zero elsewhere
Vec(x, y) == [i \in 1..Dim |-> IF i = 1 THEN x ELSE IF i = 2 THEN y ELSE 0]

\* unit vectors as float32 has them: 0.7099^2 + 0.7043^2 = 0.99999650 and
\* 0.8024^2 + 0.5968^2 = 1.00001600; their dot product is 0.98995000
Vectors == {Vec(7099, 7043), Vec(8024, 5968)}

Tables == [Texts -> Vectors]

\* the dot products np.dot can be asked for, as unordered pairs
VectorPairs == {{u, v} : u \in Vectors, v \in Vectors}

Handles ==
    {[dim |-> Dim, unit |-> u, norm |-> RawNorm, bad |-> b, side |-> d] :
        u \in Tables, b \in {{}, {"b"}}, d \in [VectorPairs -> Sides]}

get_sentence_embedding_dimension(m) == m.dim

(* ---------------- arithmetic ---------------- *)
\* Python's round on a float whose fixed-point value is x: side < 0, = 0,
\* > 0 says the float lies below, exactly on, above x.  Off a decimal tie
\* the side changes nothing.
round(x, unit, side) ==
    LET q == x \div unit
        r == x % unit
    IN  IF 2 * r < unit THEN q * unit
        ELSE IF 2 * r > unit THEN (q + 1) * unit
        ELSE IF side < 0 THEN q * unit
        ELSE IF side > 0 THEN (q + 1) * unit
        ELSE IF q % 2 = 0 THEN q * unit ELSE (q + 1) * unit

Round4(s, side) == round(s, 10000, side)

\* score >= threshold on the floats: the score's float has fixed-point value
\* x and lies on the given side of it; the threshold is the decimal y.
FloatGE(x, side, y) == x > y \/ (x = y /\ side >= 0)

Round2(e, side) == round(e, 10, side)

RECURSIVE DotUpTo(_, _, _)
DotUpTo(u, v, k) ==
    IF k = 0 THEN 0 ELSE DotUpTo(u, v, k - 1) + u[k] * v[k]

Dot(u, v) == DotUpTo(u, v, Len(u))

(* ---------------- model.encode ---------------- *)
EncodeThrows(m, texts) == \E i \in 1..Len(texts) : texts[i] \in m.bad

EncodeOne(m, t, normalize) ==
    IF normalize THEN m.unit[t] ELSE [i \in 1..m.dim |-> m.norm * m.unit[t][i]]

Encode(m, texts, normalize) ==
    [i \in 1..Len(texts) |-> EncodeOne(m, texts[i], normalize)]

\* float(np.dot(u, v)) for two embeddings of handle m: the fixed-point value
\* and the side of it on which the float lies
Score(m, u, v) == [x |-> Dot(u, v), side |-> m.side[{u, v}]]

(* ---------------- responses ---------------- *)
NoBody == [none |-> TRUE]

HTTPException(code, msg) == [status |-> code, detail |-> msg, body |-> NoBody]

Ok(b) == [status |-> 200, detail |-> "", body |-> b]

NoExchange == [req |-> [kind |-> "none"], resp |-> [status |-> 0, detail |-> "", body |-> NoBody]]

(* ---------------- GET /health ---------------- *)
\* variant: the handler skips the loaded check
HealthCheck_NoGuard(m) ==
    Ok([status |-> "healthy",
        model_loaded |-> m # None,
        model_name |-> MODEL_NAME,
        dimension |-> IF m = None THEN 0 ELSE get_sentence_embedding_dimension(m)])

HealthCheck(m) ==
    IF m = None THEN HTTPException(503, "Model not loaded")
    ELSE Ok([status |-> "healthy",
             model_loaded |-> TRUE,
             model_name |-> MODEL_NAME,
             dimension |-> get_sentence_embedding_dimension(m)])

(* ---------------- POST /embed ---------------- *)
EmbedOk(m, req, elapsed, embeddings) ==
    Ok([embeddings |-> embeddings,
        model |-> MODEL_NAME,
        dimension |-> get_sentence_embedding_dimension(m),
        count |-> Len(req.texts),
        elapsed_ms |-> Round2(elapsed.t, elapsed.side)])

\* variant: the length limit is tested with >= instead of >
GenerateEmbeddings_OffByOne(m, req, elapsed) ==
    IF m = None THEN HTTPException(503, "Model not loaded")
    ELSE IF Len(req.texts) = 0 THEN HTTPException(400, "No texts provided")
    ELSE IF Len(req.texts) >= MaxTexts
         THEN HTTPException(400, "Maximum 100 texts per request")
    ELSE IF EncodeThrows(m, req.texts) THEN HTTPException(500, EncodeError)
    ELSE EmbedOk(m, req, elapsed, Encode(m, req.texts, req.normalize))

\* variant: the vectors are returned in reverse order
GenerateEmbeddings_Reversed(m, req, elapsed) ==
    IF m = None THEN HTTPException(503, "Model not loaded")
    ELSE IF Len(req.texts) = 0 THEN HTTPException(400, "No texts provided")
    ELSE IF Len(req.texts) > MaxTexts
         THEN HTTPException(400, "Maximum 100 texts per request")
    ELSE IF EncodeThrows(m, req.texts) THEN HTTPException(500, EncodeError)
    ELSE LET e == Encode(m, req.texts, req.normalize)
         IN  EmbedOk(m, req, elapsed, [i \in 1..Len(e) |-> e[Len(e) + 1 - i]])

\* variant: the length checks come before the loaded check
GenerateEmbeddings_ValidateFirst(m, req, elapsed) ==
    IF Len(req.texts) = 0 THEN HTTPException(400, "No texts provided")
    ELSE IF Len(req.texts) > MaxTexts
         THEN HTTPException(400, "Maximum 100 texts per request")
    ELSE IF m = None THEN HTTPException(503, "Model not loaded")
    ELSE IF EncodeThrows(m, req.texts) THEN HTTPException(500, EncodeError)
    ELSE EmbedOk(m, req, elapsed, Encode(m, req.texts, req.normalize))

GenerateEmbeddings(m, req, elapsed) ==
    IF m = None THEN HTTPException(503, "Model not loaded")
    ELSE IF Len(req.texts) = 0 THEN HTTPException(400, "No texts provided")
    ELSE IF Len(req.texts) > MaxTexts
         THEN HTTPException(400, "Maximum 100 texts per request")
    ELSE IF EncodeThrows(m, req.texts) THEN HTTPException(500, EncodeError)
    ELSE EmbedOk(m, req, elapsed, Encode(m, req.texts, req.normalize))

(* ---------------- POST /similarity ---------------- *)
CalculateSimilarity(m, req) ==
    IF m = None THEN HTTPException(503, "Model not loaded")
    ELSE IF EncodeThrows(m, <<req.text1, req.text2>>)
         THEN HTTPException(500, EncodeError)
    ELSE LET embeddings == Encode(m, <<req.text1, req.text2>>, TRUE)
             similarity == Score(m, embeddings[1], embeddings[2])
         IN  Ok([similarity |-> Round4(similarity.x, similarity.side),
                 model |-> MODEL_NAME])

(* ---------------- POST /batch-similarity ---------------- *)
\* [i for i, score in enumerate(scores) if score >= threshold]: the 0-based
\* positions that pass, in increasing order; each score is compared as its
\* own float.
AboveThreshold(scores, threshold) ==
    SelectSeq([k \in 1..Len(scores) |-> k - 1],
              LAMBDA i : FloatGE(scores[i + 1].x, scores[i + 1].side, threshold))

BatchOk(scores, threshold) ==
    Ok([scores |-> [i \in 1..Len(scores) |-> Round4(scores[i].x, scores[i].side)],
        above_threshold |-> AboveThreshold(scores, threshold),
        model |-> MODEL_NAME])

\* variant: candidates are encoded one by one and the scores computed before
\* the first failure are returned
BatchSimilarity_Partial(m, req) ==
    IF m = None THEN HTTPException(503, "Model not loaded")
    ELSE IF Len(req.candidates) = 0
         THEN HTTPException(400, "No candidates provided")
    ELSE IF Len(req.candidates) > MaxCandidates
         THEN HTTPException(400, "Maximum 100 candidates per request")
    ELSE IF req.query \in m.bad THEN HTTPException(500, EncodeError)
    ELSE LET n == Len(req.candidates)
             good == IF \E i \in 1..n : req.candidates[i] \in m.bad
                     THEN (CHOOSE i \in 1..n :
                              /\ req.candidates[i] \in m.bad
                              /\ \A j \in 1..(i - 1) : req.candidates[j] \notin m.bad) - 1
                     ELSE n
             query_embedding == EncodeOne(m, req.query, TRUE)
             scores == [i \in 1..good |->
                           Score(m, query_embedding, EncodeOne(m, req.candidates[i], TRUE))]
         IN  BatchOk(scores, req.threshold)

\* variant: the candidate slice starts at the query's vector
BatchSimilarity_Shifted(m, req) ==
    IF m = None THEN HTTPException(503, "Model not loaded")
    ELSE IF Len(req.candidates) = 0
         THEN HTTPException(400, "No candidates provided")
    ELSE IF Len(req.candidates) > MaxCandidates
         THEN HTTPException(400, "Maximum 100 candidates per request")
    ELSE LET all_texts == <<req.query>> \o req.candidates
         IN  IF EncodeThrows(m, all_texts) THEN HTTPException(500, EncodeError)
             ELSE LET embeddings == Encode(m, all_texts, TRUE)
                      query_embedding == embeddings[1]
                      candidate_embeddings ==
                          SubSeq(embeddings, 1, Len(embeddings) - 1)
                      scores == [i \in 1..Len(candidate_embeddings) |->
                                    Score(m, query_embedding, candidate_embeddings[i])]
                  IN  BatchOk(scores, req.threshold)

BatchSimilarity(m, req) ==
    IF m = None THEN HTTPException(503, "Model not loaded")
    ELSE IF Len(req.candidates) = 0
         THEN HTTPException(400, "No candidates provided")
    ELSE IF Len(req.candidates) > MaxCandidates
         THEN HTTPException(400, "Maximum 100 candidates per request")
    ELSE LET all_texts == <<req.query>> \o req.candidates
         IN  IF EncodeThrows(m, all_texts) THEN HTTPException(500, EncodeError)
             ELSE LET embeddings == Encode(m, all_texts, TRUE)
                      query_embedding == embeddings[1]
                      candidate_embeddings ==
                          SubSeq(embeddings, 2, Len(embeddings))
                      scores == [i \in 1..Len(candidate_embeddings) |->
                                    Score(m, query_embedding, candidate_embeddings[i])]
                  IN  BatchOk(scores, req.threshold)

(* ---------------- state machine ---------------- *)
\* phase "starting": the server of the __main__ block runs the startup hook
\* before it accepts traffic.  phase "detached": the app object is driven
\* without startup events, so the handle keeps its initial value None.
Init ==
    /\ phase \in {"starting", "detached"}
    /\ model = None
    /\ last = NoExchange

\* the server answers requests once startup has completed; a startup hook
\* that raised ends the process
Accepting == phase \in {"serving", "detached"}

\* last is the exchange just answered
Answer(req, resp) == last' = [req |-> req, resp |-> resp]

\* line 90 assigns the global as soon as the constructor returns; lines
\* 91-93 (the dimension is read for the log) are inside the same try, and the
\* except clause logs and re-raises without touching the global.
load_model ==
    /\ phase = "starting"
    /\ \/ model' = model /\ phase' = "aborted"
       \/ \E m \in Handles : model' = m /\ phase' = "serving"
       \/ \E m \in Handles : model' = m /\ phase' = "aborted"
    /\ UNCHANGED last

health_check ==
    /\ Accepting
    /\ Answer([kind |-> "health"], HealthCheck(model))
    /\ UNCHANGED <<phase, model>>

generate_embeddings ==
    /\ Accepting
    /\ \E texts \in TextLists, normalize \in BOOLEAN, elapsed \in Elapsed :
          LET req == [kind |-> "embed", texts |-> texts, normalize |-> normalize]
          IN  Answer(req, GenerateEmbeddings(model, req, elapsed))
    /\ UNCHANGED <<phase, model>>

calculate_similarity ==
    /\ Accepting
    /\ \E text1 \in Texts, text2 \in Texts :
          LET req == [kind |-> "similarity", text1 |-> text1, text2 |-> text2]
          IN  Answer(req, CalculateSimilarity(model, req))
    /\ UNCHANGED <<phase, model>>

\* variant: the handle is dropped when the request fails
batch_similarity_drops_model ==
    /\ Accepting
    /\ \E query \in Texts, candidates \in CandidateLists, threshold \in Thresholds :
          LET req == [kind |-> "batch", query |-> query,
                      candidates |-> candidates, threshold |-> threshold]
              resp == BatchSimilarity(model, req)
          IN  /\ Answer(req, resp)
              /\ model' = IF resp.status = 500 THEN None ELSE model
    /\ UNCHANGED phase

batch_similarity ==
    /\ Accepting
    /\ \E query \in Texts, candidates \in CandidateLists, threshold \in Thresholds :
          LET req == [kind |-> "batch", query |-> query,
                      candidates |-> candidates, threshold |-> threshold]
          IN  Answer(req, BatchSimilarity(model, req))
    /\ UNCHANGED <<phase, model>>

Next ==
    \/ load_model
    \/ health_check
    \/ generate_embeddings
    \/ calculate_similarity
    \/ batch_similarity

Spec == Init /\ [][Next]_vars

TypeOK ==
    /\ phase \in {"starting", "detached", "serving", "aborted"}
    /\ model \in Handles \cup {None}

(* ======================= properties ======================= *)
IsBatchOk(x) == x.req.kind = "batch" /\ x.resp.status = 200

IsEmbedOk(x) == x.req.kind = "embed" /\ x.resp.status = 200

\* the texts a request hands to model.encode
EncodedTexts(req) ==
    IF req.kind = "embed" THEN req.texts
    ELSE IF req.kind = "similarity" THEN <<req.text1, req.text2>>
    ELSE IF req.kind = "batch" THEN <<req.query>> \o req.candidates
    ELSE <<>>

\* the request passes the handler's length checks
PassesValidation(req) ==
    /\ req.kind = "embed" => Len(req.texts) \in 1..MaxTexts
    /\ req.kind = "batch" => Len(req.candidates) \in 1..MaxCandidates

\* C1: in a successful /batch-similarity response, index i is in
\* above_threshold iff the returned (rounded) scores[i] >= threshold, and the
\* indices are 0-based and increasing.
C1_AboveThresholdIffReturnedScore ==
    IsBatchOk(last) =>
        LET sc == last.resp.body.scores
            ab == last.resp.body.above_threshold
        IN  /\ \A i \in 0..(Len(last.req.candidates) - 1) :
                  (\E k \in 1..Len(ab) : ab[k] = i) <=> (sc[i + 1] >= last.req.threshold)
            /\ \A k \in 1..(Len(ab) - 1) : ab[k] < ab[k + 1]

\* C2: with the model loaded, /embed answers 400 exactly when texts is empty
\* or longer than 100; every length 1..100 reaches encode and succeeds when
\* encode does not raise.
C2_EmbedLengthCheck ==
    (last.req.kind = "embed" /\ model # None) =>
        LET n == Len(last.req.texts)
        IN  /\ (last.resp.status = 400) <=> (n = 0 \/ n > 100)
            /\ n \in 1..100 => last.resp.status \in {200, 500}
            /\ (n \in 1..100 /\ ~EncodeThrows(model, last.req.texts)) =>
                   last.resp.status = 200

C2_Witness ==
    /\ last.req.kind = "embed"
    /\ Len(last.req.texts) = 100
    /\ last.resp.status = 200

\* C3: a successful /embed returns as many vectors as count and as input
\* texts, the i-th vector is the encoding of the i-th text, and every vector
\* has length dimension.
C3_EmbedShape ==
    IsEmbedOk(last) =>
        LET b == last.resp.body
        IN  /\ Len(b.embeddings) = b.count
            /\ b.count = Len(last.req.texts)
            /\ \A i \in 1..Len(last.req.texts) :
                  /\ i <= Len(b.embeddings)
                  /\ b.embeddings[i] =
                         EncodeOne(model, last.req.texts[i], last.req.normalize)
                  /\ Len(b.embeddings[i]) = b.dimension

C3_Witness ==
    /\ IsEmbedOk(last)
    /\ Len(last.req.texts) = 2
    /\ last.req.texts[1] # last.req.texts[2]
    /\ last.resp.body.embeddings[1] # last.resp.body.embeddings[2]

\* C4: /health answers 503 whenever the handle is unset, answers 200 with
\* model_loaded = TRUE and the model's dimension whenever it is set, and
\* never answers 200 with model_loaded = FALSE.
C4_Health ==
    last.req.kind = "health" =>
        /\ model = None => last.resp.status = 503
        /\ model # None =>
              /\ last.resp.status = 200
              /\ last.resp.body.model_loaded = TRUE
              /\ last.resp.body.dimension = model.dim
              /\ last.resp.body.dimension > 0
        /\ last.resp.status = 200 => last.resp.body.model_loaded = TRUE

C4_Witness ==
    /\ last.req.kind = "health"
    /\ last.resp.status = 200
    /\ phase = "serving"

\* C5: only load_model writes the model handle (or the process phase); a
\* step that answers a request leaves both unchanged, on every path.
C5_OnlyLoadModelWrites ==
    [][(model' # model \/ phase' # phase) =>
          (phase = "starting" /\ last' = last)]_vars

C5_Witness ==
    /\ model # None
    /\ last.resp.status = 500

\* C6: a request whose encode call raises is answered 500 with the error
\* message and no body; no error response carries a body, and a successful
\* /batch-similarity carries a score for every candidate.
C6_AllOrNothing ==
    /\ (/\ model # None
        /\ last.req.kind \in {"embed", "similarity", "batch"}
        /\ PassesValidation(last.req)
        /\ EncodeThrows(model, EncodedTexts(last.req))) =>
           /\ last.resp.status = 500
           /\ last.resp.detail = EncodeError
           /\ last.resp.body = NoBody
    /\ last.resp.status # 200 => last.resp.body = NoBody
    /\ IsBatchOk(last) =>
           Len(last.resp.body.scores) = Len(last.req.candidates)

C6_Witness ==
    /\ last.req.kind = "batch"
    /\ last.resp.status = 500
    /\ Len(last.req.candidates) = 2
    /\ last.req.query \notin model.bad
    /\ last.req.candidates[1] \notin model.bad
    /\ last.req.candidates[2] \in model.bad

\* C7: a successful /batch-similarity returns one score per candidate and
\* scores[i] is the rounded dot product of the query's embedding with the
\* embedding of candidates[i].
C7_ScoresAligned ==
    IsBatchOk(last) =>
        LET sc == last.resp.body.scores
        IN  /\ Len(sc) = Len(last.req.candidates)
            /\ \A i \in 1..Len(last.req.candidates) :
                  /\ i <= Len(sc)
                  /\ LET q == EncodeOne(model, last.req.query, TRUE)
                         c == EncodeOne(model, last.req.candidates[i], TRUE)
                     IN  sc[i] = Round4(Dot(q, c), model.side[{q, c}])

C7_Witness ==
    /\ IsBatchOk(last)
    /\ Len(last.req.candidates) = 2
    /\ last.req.candidates[1] = last.req.query
    /\ last.req.candidates[2] # last.req.query
    /\ last.resp.body.scores[1] # last.resp.body.scores[2]
    /\ LET q == EncodeOne(model, last.req.query, TRUE)
           c == EncodeOne(model, last.req.candidates[2], TRUE)
       IN  model.side[{q}] # model.side[{q, c}]

\* C8: under the server's startup, traffic is served only with the model
\* loaded; after a failed load the handle is unset and no request has been
\* answered.
C8_LoadBeforeTraffic ==
    /\ phase = "serving" => model # None
    /\ phase = "starting" => (model = None /\ last = NoExchange)
    /\ phase = "aborted" => (model = None /\ last = NoExchange)

\* C10: while the handle is unset every handler answers 503, whatever the
\* body (an empty or over-long list included); a 400 is only answered with
\* the model loaded.
C10_LoadedCheckFirst ==
    /\ (model = None /\ last.req.kind # "none") => last.resp.status = 503
    /\ last.resp.status = 400 => model # None

C10_Witness ==
    /\ model = None
    /\ last.req.kind = "batch"
    /\ Len(last.req.candidates) > MaxCandidates
    /\ last.resp.status = 503
====
